---- MODULE Spec2Model ----
(***************************************************************************)
(* Model of the AI-news backend: the job tracker (logJob / finishJob), the *)
(* job pipeline runJob (fetchFeeds, fetchWithMirrors, generateBriefing,    *)
(* cleanJson, JSON.parse, cache write, durable upsert), the read handler   *)
(* GET /api/latest and the trigger handler POST /api/trigger.              *)
(*                                                                         *)
(* One action is one turn of the event loop: the synchronous code that     *)
(* runs from the completion of an awaited external call (feed parse, model *)
(* call, durable query) up to the next awaited external call.              *)
(***************************************************************************)
EXTENDS Integers, Sequences, FiniteSets, TLC

\* ------------------------------------------------------------------ bounds

\* sources of the registry that are modelled (a prefix of SOURCES)
NumSources == 2
\* jobs started in a run of the system in which jobs may overlap
MaxJobs == 2
\* jobs started one after another in a run of the system without overlap
MaxSeqJobs == 6
\* items in a feed returned by an upstream
MaxFeedLen == 1
\* direct calls made by the tracker harness
MaxCalls == 7
\* items in the longest feed an upstream returns when the cut of a feed is checked
MaxLongFeed == 16

\* ------------------------------------------------------- program constants

\* jobHistory keeps this many runs (logJob: if length > 5 pop)
HistoryCap == 5
\* fetchWithMirrors: urlsToTry.slice(0, 3)
MaxAttempts == 3
\* fetchFeeds: feed.items.slice(0, 5)
ItemsPerSource == 5
\* fetchFeeds: snippet.substring(0, 200)
SnippetCap == 200
\* runJob: feedData.length < 50
ShortContext == 50

Min(a, b) == IF a < b THEN a ELSE b

\* --------------------------------------------------------- source registry

RSSHUB_MIRRORS ==
    << "https://rsshub.app", "https://rsshub.feedlib.xyz",
       "https://rsshub.pseudoyu.com", "https://rsshub.blue" >>

\* A url is its origin and its path; nameLen is the length of the name.
SOURCES ==
    << [name |-> "Tencent Tech", nameLen |-> 12,
        host |-> "https://rsshub.app", path |-> "/tencent/news/channel/tech"],
       [name |-> "Hugging Face", nameLen |-> 12,
        host |-> "https://huggingface.co", path |-> "/blog/feed.xml"],
       [name |-> "Y Combinator AI", nameLen |-> 15,
        host |-> "https://hnrss.org", path |-> "/newest?q=AI"],
       [name |-> "Arxiv AI", nameLen |-> 8,
        host |-> "https://export.arxiv.org", path |-> "/rss/cs.AI"],
       [name |-> "Reddit LocalLlama", nameLen |-> 17,
        host |-> "https://rsshub.app", path |-> "/reddit/subreddit/LocalLLaMA"],
       [name |-> "Reddit StableDiffusion", nameLen |-> 22,
        host |-> "https://rsshub.app", path |-> "/reddit/subreddit/StableDiffusion"] >>

SourceIds == 1..Min(NumSources, Len(SOURCES))

\* fetchWithMirrors: the candidate addresses of a source, in order
UrlsToTry(source) ==
    IF source.host = "https://rsshub.app"
    THEN [i \in 1..Len(RSSHUB_MIRRORS) |->
            [host |-> RSSHUB_MIRRORS[i], path |-> source.path]]
    ELSE << [host |-> source.host, path |-> source.path] >>

\* only the first address is tried
CandidatesFirstOnly(source) == SubSeq(UrlsToTry(source), 1, 1)

\* fetchWithMirrors: urlsToTry.slice(0, 3)
Candidates(source) ==
    SubSeq(UrlsToTry(source), 1, Min(MaxAttempts, Len(UrlsToTry(source))))

\* ------------------------------------------------------------ job tracker

\* A log message: its fixed text, a string argument and a number argument.
Msg(text, arg, n) == [text |-> text, arg |-> arg, n |-> n]

\* logJob: entry = [HH:MM:SS] message (the clock value is not modelled;
\* stamp tells a timestamp-prefixed entry from a bare terminal line)
Entry(message) == [stamp |-> TRUE, msg |-> message]

\* The object literal pushed by runJob and by logJob. id is the order of
\* creation (Date.now() in the code); origin tells which of the two pushed it.
\* success and error are absent ("undefined") until the run is sealed.
NewRun(id, logs, origin) ==
    [id |-> id, logs |-> logs, finished |-> FALSE,
     success |-> "undefined", error |-> "undefined", origin |-> origin]

\* The tracker state threaded through a turn: h is jobHistory, n the next id.
Tracker(h, n) == [h |-> h, n |-> n]

\* runJob: jobHistory.unshift({ ..., logs: [], finished: false })
Unshift(T) == Tracker(<< NewRun(T.n, << >>, "runJob") >> \o T.h, T.n + 1)

\* logJob without the eviction of its last line
LogJobNoEvict(T, message) ==
    IF Len(T.h) = 0 \/ T.h[1].finished
    THEN Tracker(<< NewRun(T.n, << Entry(message) >>, "logJob") >> \o T.h, T.n + 1)
    ELSE Tracker([T.h EXCEPT ![1].logs = Append(@, Entry(message))], T.n)

\* logJob without its first branch: with no unfinished front run the line is dropped
LogJobDropWhenSealed(T, message) ==
    IF Len(T.h) = 0 \/ T.h[1].finished
    THEN T
    ELSE Tracker([T.h EXCEPT ![1].logs = Append(@, Entry(message))], T.n)

\* logJob without the test of finished: the line goes to the front run even
\* when that run is sealed
LogJobAppendAlways(T, message) ==
    IF Len(T.h) = 0
    THEN Tracker(<< NewRun(T.n, << Entry(message) >>, "logJob") >>, T.n + 1)
    ELSE Tracker([T.h EXCEPT ![1].logs = Append(@, Entry(message))], T.n)

\* logJob(message)
LogJob(T, message) ==
    LET pushed ==
            IF Len(T.h) = 0 \/ T.h[1].finished
            THEN Tracker(<< NewRun(T.n, << Entry(message) >>, "logJob") >> \o T.h,
                         T.n + 1)
            ELSE Tracker([T.h EXCEPT ![1].logs = Append(@, Entry(message))], T.n)
    IN  IF Len(pushed.h) > HistoryCap
        THEN Tracker(SubSeq(pushed.h, 1, Len(pushed.h) - 1), pushed.n)
        ELSE pushed

BoolStr(b) == IF b THEN "true" ELSE "false"

\* finishJob: error ? error.toString() : null
ErrorField(error) == IF error = "null" \/ error = "" THEN "null" ELSE error

\* finishJob: success ? '>>> COMPLETED SUCCESS' : '>>> FAILED: ' + error
TerminalLine(success, error) ==
    [stamp |-> FALSE,
     msg |-> IF success THEN Msg(">>> COMPLETED SUCCESS", "", 0)
                        ELSE Msg(">>> FAILED: ", error, 0)]

\* finishJob without the test of finished: a sealed front run is sealed again
FinishJobReseal(T, success, error) ==
    IF Len(T.h) > 0
    THEN Tracker([T.h EXCEPT ![1].finished = TRUE,
                             ![1].success = BoolStr(success),
                             ![1].error = ErrorField(error),
                             ![1].logs = Append(@, TerminalLine(success, error))],
                 T.n)
    ELSE T

\* finishJob(success, error)
FinishJob(T, success, error) ==
    IF Len(T.h) > 0 /\ ~T.h[1].finished
    THEN Tracker([T.h EXCEPT ![1].finished = TRUE,
                             ![1].success = BoolStr(success),
                             ![1].error = ErrorField(error),
                             ![1].logs = Append(@, TerminalLine(success, error))],
                 T.n)
    ELSE T

\* ------------------------------------------------- model output and JSON

\* A JSON value: an array of items, or something that is not an array.
Value(type, items) == [type |-> type, items |-> items]
NoValue == Value("none", << >>)

\* A text is a sequence of tokens: a code fence with or without the json
\* tag, white space, prose, or the text of one JSON value.
Tok(kind, val) == [tok |-> kind, val |-> val]
FenceJson == Tok("fence_json", NoValue)
Fence == Tok("fence", NoValue)
Space == Tok("ws", NoValue)
Prose == Tok("prose", NoValue)
ValueTok(v) == Tok("value", v)
IsFence(t) == t.tok = "fence_json" \/ t.tok = "fence"

\* What response.text() hands to runJob: present is FALSE for undefined/null.
Text(present, toks) == [present |-> present, toks |-> toks]

\* String.prototype.trim
RECURSIVE TrimLeft(_)
TrimLeft(toks) ==
    IF Len(toks) > 0 /\ toks[1].tok = "ws" THEN TrimLeft(Tail(toks)) ELSE toks

RECURSIVE TrimRight(_)
TrimRight(toks) ==
    IF Len(toks) > 0 /\ toks[Len(toks)].tok = "ws"
    THEN TrimRight(SubSeq(toks, 1, Len(toks) - 1))
    ELSE toks

Trim(toks) == TrimRight(TrimLeft(toks))

\* cleaned.match(fence, optional json tag, lazy body, fence): the leftmost
\* opening fence and the first fence after it; group 1 is what lies between,
\* without the white space at its ends.  << >> for no match, else << group1 >>.
CodeBlockMatch(toks) ==
    LET opens == {i \in 1..Len(toks) :
                    IsFence(toks[i]) /\ \E k \in (i + 1)..Len(toks) : IsFence(toks[k])}
    IN  IF opens = {} THEN << >>
        ELSE LET i == CHOOSE a \in opens : \A b \in opens : a <= b
                 k == CHOOSE a \in (i + 1)..Len(toks) :
                        /\ IsFence(toks[a])
                        /\ \A b \in (i + 1)..Len(toks) : IsFence(toks[b]) => a <= b
             IN  << Trim(SubSeq(toks, i + 1, k - 1)) >>

\* cleanJson(text)
CleanJson(text) ==
    IF ~text.present \/ text.toks = << >>
    THEN << ValueTok(Value("array", << >>)) >>
    ELSE LET cleaned == Trim(text.toks)
             codeBlockMatch == CodeBlockMatch(cleaned)
         IN  IF codeBlockMatch # << >> THEN codeBlockMatch[1] ELSE cleaned

\* JSON.parse: one JSON value with white space around it, else a SyntaxError
JsonParse(toks) ==
    LET t == Trim(toks)
    IN  IF Len(t) = 1 /\ t[1].tok = "value"
        THEN [ok |-> TRUE, val |-> t[1].val]
        ELSE [ok |-> FALSE, val |-> NoValue]

\* JSON.stringify of a value that came from JSON.parse
JsonStringify(v) == << ValueTok(v) >>

\* the array test left out: whatever parses is taken for the array
IsArrayAlways(v) == TRUE

\* Array.isArray
IsArray(v) == v.type = "array"

\* --------------------------------------------------------- briefing items

\* title and summary of an item: the pair {en, zh}, or a bare string s (then
\* en and zh both hold s and shape says it is a string).
Field(shape, s) == [shape |-> shape, en |-> s, zh |-> s]

\* An item of a model output. job names the job whose model call returned it.
Item(job, shape) ==
    [job |-> job, title |-> Field(shape, "title"), summary |-> Field(shape, "summary")]

\* DEFAULT STATE: the sys-status item the cache holds at start
Placeholder ==
    [job |-> 0, title |-> Field("pair", "SYSTEM STATUS"),
     summary |-> Field("pair", "Memory Mode")]

\* The shapes of model output the environment can produce for a job.
GenShapes ==
    { "throw", "absent", "empty", "array", "strings", "array0", "fenced",
      "fenced0", "plainfence", "chatty", "object", "garbage", "blank",
      "emptyfence", "unclosed" }

\* The shapes drawn when the environment is not scripted.
FreeShapes == { "throw", "absent", "array", "object", "garbage" }

OneItem(j) == Value("array", << Item(j, "pair") >>)

\* response.text() of job j for a shape
RawText(shape, j) ==
    CASE shape = "absent" -> Text(FALSE, << >>)
      [] shape = "empty" -> Text(TRUE, << >>)
      [] shape = "array" -> Text(TRUE, << ValueTok(OneItem(j)) >>)
      [] shape = "strings" ->
            Text(TRUE, << ValueTok(Value("array", << Item(j, "string") >>)) >>)
      [] shape = "array0" -> Text(TRUE, << ValueTok(Value("array", << >>)) >>)
      [] shape = "fenced" ->
            Text(TRUE, << FenceJson, Space, ValueTok(OneItem(j)), Space, Fence >>)
      [] shape = "fenced0" ->
            Text(TRUE, << FenceJson, Space, ValueTok(Value("array", << >>)), Space, Fence >>)
      [] shape = "plainfence" -> Text(TRUE, << Fence, ValueTok(OneItem(j)), Fence >>)
      [] shape = "chatty" ->
            Text(TRUE, << Prose, Space, FenceJson, ValueTok(OneItem(j)), Fence, Prose >>)
      [] shape = "object" -> Text(TRUE, << ValueTok(Value("object", << >>)) >>)
      [] shape = "garbage" -> Text(TRUE, << Prose >>)
      [] shape = "blank" -> Text(TRUE, << Space >>)
      [] shape = "emptyfence" -> Text(TRUE, << FenceJson, Fence >>)
      [] shape = "unclosed" -> Text(TRUE, << FenceJson, ValueTok(OneItem(j)) >>)
      [] OTHER -> Text(FALSE, << >>)

\* ------------------------------------------------------ feeds and context

\* An item of a parsed feed; snippet is the length of
\* item.contentSnippet || item.content || "".
FeedItems ==
    { [title |-> "t", titleLen |-> 1, link |-> "l", linkLen |-> 1, snippet |-> 250,
       published |-> "fresh"] }

Feeds == UNION { [1..n -> FeedItems] : n \in 0..MaxFeedLen }

\* What an upstream states as the publication time of an item (item.isoDate):
\* within the last day, older, not stated, or not the text of a date.
Published == { "fresh", "old", "absent", "unparsable" }

\* An item of a parsed feed with a given publication time; link tells the
\* items of a feed apart.
DatedItem(p) ==
    [title |-> "t", titleLen |-> 1, link |-> p, linkLen |-> 1, snippet |-> 250,
     published |-> p]

DatedFeeds == UNION { [1..n -> { DatedItem(p) : p \in Published }] : n \in 0..MaxFeedLen }

\* The i-th item of a long feed; link is its position in the feed.
NumberedItem(i) ==
    [title |-> "t", titleLen |-> 1, link |-> i, linkLen |-> 1, snippet |-> 250,
     published |-> "fresh"]

\* One feed of every length up to MaxLongFeed.
LongFeeds == { [i \in 1..n |-> NumberedItem(i)] : n \in 0..MaxLongFeed }

\* fetchFeeds: Title / Link / Snippet of one item
RenderItem(item) ==
    [title |-> item.title, titleLen |-> item.titleLen, link |-> item.link,
     linkLen |-> item.linkLen, snippet |-> Min(item.snippet, SnippetCap)]

\* the block of one source without the slice: every item of the feed
BlockUncapped(source, feed) ==
    [source |-> source.name, nameLen |-> source.nameLen,
     items |-> [i \in 1..Len(feed) |-> RenderItem(feed[i])]]

\* fetchFeeds: the block of one source, header and feed.items.slice(0, 5)
Block(source, feed) ==
    [source |-> source.name, nameLen |-> source.nameLen,
     items |-> [i \in 1..Min(Len(feed), ItemsPerSource) |-> RenderItem(feed[i])]]

\* length of "Title: ..\nLink: ..\nSnippet: .....\n\n"
RenderedLength(r) == 7 + r.titleLen + 1 + 6 + r.linkLen + 1 + 9 + r.snippet + 3 + 2

RECURSIVE SumLengths(_)
SumLengths(rs) ==
    IF rs = << >> THEN 0 ELSE RenderedLength(rs[1]) + SumLengths(Tail(rs))

\* feedData.length: the banner "RAW FEED DATA:\n" (15), then per block the
\* header "--- SOURCE: name ---\n" (17 and the name) and its items
RECURSIVE ContextLength(_)
ContextLength(context) ==
    IF context = << >> THEN 15
    ELSE LET b == context[Len(context)]
         IN  ContextLength(SubSeq(context, 1, Len(context) - 1))
                + 17 + b.nameLen + SumLengths(b.items)

\* ----------------------------------------------------------- durable store

\* runJob: dateStr, the UTC date of the job (every modelled job runs on it)
DateStr == "2025-01-01"

\* runJob: sessionKey
SessionKey(dateStr, isMorning) ==
    [date |-> dateStr, half |-> IF isMorning THEN "AM" ELSE "PM"]

\* A record left in the table by an earlier life of the process.
OldRow ==
    [date_key |-> SessionKey("2024-12-31", FALSE), display_date |-> "2024-12-31",
     content |-> JsonStringify(OneItem(0)), created_at |-> 0]

\* a plain INSERT that keeps the record already stored under the key
UpsertAppend(rows, key, date, content, now) ==
    rows \cup { [date_key |-> key, display_date |-> date, content |-> content,
                 created_at |-> now] }

\* INSERT ... ON CONFLICT (date_key) DO UPDATE SET content, created_at
Upsert(rows, key, date, content, now) ==
    LET old == {r \in rows : r.date_key = key}
    IN  (rows \ old) \cup
        { [date_key |-> key,
           display_date |-> IF old = {} THEN date ELSE (CHOOSE r \in old : TRUE).display_date,
           content |-> content, created_at |-> now] }

\* the query with ORDER BY created_at ASC: the oldest record
SelectOldest(rows) ==
    IF rows = {} THEN << >>
    ELSE << CHOOSE r \in rows : \A q \in rows : q.created_at >= r.created_at >>

\* SELECT * FROM briefings ORDER BY created_at DESC LIMIT 1: result.rows
SelectLatest(rows) ==
    IF rows = {} THEN << >>
    ELSE << CHOOSE r \in rows : \A q \in rows : q.created_at <= r.created_at >>

\* -------------------------------------------------------------- the state

VARIABLES
    pool,           \* TRUE when the Pool handle exists, FALSE for pool = null
    apiKey,         \* TRUE when process.env.API_KEY is set
    db,             \* the durable store: exists (table briefings), rows
    dbClock,        \* CURRENT_TIMESTAMP of the durable store
    inMemoryCache,  \* the cache slot: a sequence of items
    cacheBy,        \* the job that last assigned inMemoryCache (0: nobody)
    jobHistory,     \* the runs of the tracker, newest first
    nextRunId,      \* the id the next run object gets
    jobs,           \* per job: where runJob is suspended, and its locals
    world,          \* what the upstreams, the model and the store answer
    lastRead,       \* the answer GET /api/latest sent in the last turn, if any
    lastTrigger,    \* the answer POST /api/trigger sent in the last turn, if any
    lastCall,       \* the last direct call made by the tracker harness
    calls           \* number of direct calls made by the tracker harness

vars ==
    << pool, apiKey, db, dbClock, inMemoryCache, cacheBy, jobHistory, nextRunId,
       jobs, world, lastRead, lastTrigger, lastCall, calls >>

JobIds == 1..(IF MaxJobs > MaxSeqJobs THEN MaxJobs ELSE MaxSeqJobs)

\* runJob before it is called
IdleJob ==
    [pc |-> "idle", isMorning |-> FALSE, src |-> 0, cand |-> 0, context |-> << >>,
     key |-> SessionKey(DateStr, FALSE), shape |-> "none", parsed |-> NoValue,
     run |-> 0, result |-> "none", error |-> "none", called |-> FALSE,
     wrote |-> FALSE, upsert |-> "none"]

NoRead ==
    [status |-> 0, body |-> NoValue, from |-> "none", queries |-> 0, creates |-> 0,
     dbError |-> "none", writer |-> 0, writerUpsert |-> "none"]

NoTrigger == [status |-> 0, body |-> "none", header |-> "none", started |-> 0]

NoCall == [op |-> "none", success |-> FALSE, error |-> "null", msg |-> Msg("", "", 0),
           open |-> FALSE]

\* ------------------------------------------------------------ environment

AttemptOutcomes == { "ok", "noitems", "fail" }

\* Every way the upstreams can answer: per source and candidate the outcome
\* of parser.parseURL, and per source the feed it serves.
AllFeedWorlds ==
    { [attempt |-> a, feed |-> f] :
        a \in { x \in [SourceIds -> [1..MaxAttempts -> AttemptOutcomes]] :
                  \A s \in SourceIds : \A c \in 1..MaxAttempts :
                     c > Len(Candidates(SOURCES[s])) => x[s][c] = "fail" },
        f \in [SourceIds -> Feeds] }

\* up: every address answers; down: none does; mirror: the first address
\* fails, the second parses without items, the third answers.
AttemptOf(pattern, s, c) ==
    IF c > Len(Candidates(SOURCES[s])) THEN "fail"
    ELSE CASE pattern = "up" -> "ok"
           [] pattern = "down" -> "fail"
           [] OTHER -> IF c = 1 THEN "fail" ELSE IF c = 2 THEN "noitems" ELSE "ok"

FeedWorld(pattern, feed) ==
    [attempt |-> [s \in SourceIds |-> [c \in 1..MaxAttempts |-> AttemptOf(pattern, s, c)]],
     feed |-> [s \in SourceIds |-> feed]]

SmallFeedWorlds == { FeedWorld(p, f) : p \in { "up", "down", "mirror" }, f \in Feeds }

World(fw, gen, save, half, overlap, limit) ==
    [attempt |-> fw.attempt, feed |-> fw.feed, gen |-> gen, save |-> save,
     half |-> half, overlap |-> overlap, limit |-> limit]

\* An outcome the environment may produce now: any of the free ones when the
\* world does not script it, else the scripted one.
Allowed(outcome, scripted, free) ==
    IF scripted = "any" THEN outcome \in free ELSE outcome = scripted

\* ------------------------------------------------------------------- Init

InitProgram ==
    /\ pool \in BOOLEAN
    /\ apiKey \in BOOLEAN
    /\ db \in { [exists |-> e, rows |-> r] :
                  e \in (IF pool THEN BOOLEAN ELSE { FALSE }),
                  r \in { {}, { OldRow } } }
    /\ db.rows # {} => db.exists
    /\ dbClock = 1
    /\ inMemoryCache = << Placeholder >>
    /\ cacheBy = 0
    /\ jobHistory = << >>
    /\ nextRunId = 1
    /\ jobs = [j \in JobIds |-> IdleJob]
    /\ lastRead = NoRead
    /\ lastTrigger = NoTrigger
    /\ lastCall = NoCall
    /\ calls = 0

\* jobs may overlap; the model and the store answer freely
Init ==
    /\ InitProgram
    /\ world \in { World(FeedWorld("mirror", f), "any", "any", "any", TRUE, MaxJobs) : f \in Feeds }

\* jobs run one after another; every job meets the same answers
InitSeq ==
    /\ InitProgram
    /\ world \in { World(fw, g, s, h, FALSE, MaxSeqJobs) :
                     fw \in SmallFeedWorlds, g \in GenShapes, s \in { "ok", "fail" },
                     h \in { "AM", "PM" } }

\* a few jobs one after another, for the checks of termination
InitFair ==
    /\ InitProgram
    /\ world \in { World(FeedWorld("mirror", << >>), g, s, "AM", FALSE, MaxJobs) :
                     g \in { "throw", "absent", "array", "object", "garbage" },
                     s \in { "ok", "fail" } }

\* one job, every way the upstreams can answer; the table is there and
\* empty when the store is configured
InitFetch ==
    /\ InitProgram
    /\ db = [exists |-> pool, rows |-> {}]
    /\ world \in { World(fw, "array", "ok", "any", FALSE, 1) : fw \in AllFeedWorlds }

\* one job, every source serves the same feed of items published at any time
InitRecency ==
    /\ InitProgram
    /\ world \in { World(FeedWorld(p, f), "array", "ok", "any", FALSE, 1) :
                     p \in { "up", "mirror" }, f \in DatedFeeds }

\* one job, every source serves the same feed of any length
InitCap ==
    /\ InitProgram
    /\ world \in { World(FeedWorld(p, f), "array", "ok", "any", FALSE, 1) :
                     p \in { "up", "mirror" }, f \in LongFeeds }

\* jobs are started by cron and by trigger requests, one after another
InitTrigger ==
    /\ InitProgram
    /\ world \in { World(FeedWorld("up", << >>), g, s, "any", FALSE, MaxJobs) :
                     g \in { "array", "throw" }, s \in { "ok", "fail" } }

\* ------------------------------------------------------------------ runJob

Now == Tracker(jobHistory, nextRunId)

SetTracker(T) == jobHistory' = T.h /\ nextRunId' = T.n

Running == { j \in JobIds : jobs[j].pc \notin { "idle", "done" } }

\* the catch block without its finishJob call
CatchNoSeal(T, message) == LogJob(T, Msg("FATAL ERROR: ", message, 0))

\* runJob: catch (e) { logJob(FATAL ERROR: e.message); finishJob(false, e.message) }
Catch(T, message) ==
    FinishJob(LogJob(T, Msg("FATAL ERROR: ", message, 0)), FALSE, message)

\* generateBriefing without the test of API_KEY
CredentialNeverChecked(key) == FALSE

\* generateBriefing: if (!process.env.API_KEY) throw
CredentialMissing(key) == ~key

\* The end of runJob for job j: its locals, and what it passed to finishJob.
Ended(job, success, error) ==
    [job EXCEPT !.pc = "done", !.result = BoolStr(success), !.error = error]

\* runJob after fetchFeeds has returned context: the length warning, then
\* generateBriefing up to the model call
AfterFetch(j, T, context) ==
    LET T1 == IF ContextLength(context) < ShortContext
              THEN LogJob(T, Msg("WARNING: Feed data extremely short.", "", 0))
              ELSE T
        T2 == LogJob(T1, Msg("Calling Gemini API...", "", 0))
    IN  IF CredentialMissing(apiKey)
        THEN /\ jobs' = [jobs EXCEPT ![j] =
                    Ended([@ EXCEPT !.context = context], FALSE, "API_KEY missing")]
             /\ SetTracker(Catch(T2, "API_KEY missing"))
        ELSE /\ jobs' = [jobs EXCEPT ![j].pc = "generate", ![j].context = context,
                                     ![j].called = TRUE]
             /\ SetTracker(T2)

\* fetchFeeds: the loop goes on to the next source, or returns context
NextSource(j, T, context) ==
    IF jobs[j].src < Len(SOURCES) /\ jobs[j].src + 1 \in SourceIds
    THEN /\ jobs' = [jobs EXCEPT ![j].src = @ + 1, ![j].cand = 1, ![j].context = context]
         /\ SetTracker(T)
    ELSE AfterFetch(j, T, context)

\* a failing source ends the loop: fetchFeeds returns what it has
SkipSourceAbort(j, T, context) ==
    AfterFetch(j, LogJob(T, Msg("Skipped ", SOURCES[jobs[j].src].name, 0)), context)

\* fetchFeeds: catch (e) { logJob(Skipped ...) } and on to the next source
SkipSource(j, T, context) ==
    NextSource(j, LogJob(T, Msg("Skipped ", SOURCES[jobs[j].src].name, 0)), context)

\* runJob(isMorning) up to its first await: the run is pushed, fetchFeeds
\* starts and fetchWithMirrors asks the first candidate of the first source
StartJob(j, isMorning) ==
    /\ jobs[j].pc = "idle"
    /\ \A i \in JobIds : i < j => jobs[i].pc # "idle"
    /\ j <= world.limit
    /\ world.overlap \/ Running = {}
    /\ Allowed(SessionKey(DateStr, isMorning).half, world.half, { "AM", "PM" })
    /\ LET T1 == Unshift(Now)
           T2 == LogJob(T1, Msg("Job Started: ", IF isMorning THEN "Morning" ELSE "Afternoon", 0))
           T3 == LogJob(T2, Msg("Starting feed fetch...", "", 0))
       IN  /\ SetTracker(T3)
           /\ jobs' = [jobs EXCEPT ![j] =
                  [@ EXCEPT !.pc = "fetch", !.isMorning = isMorning, !.src = 1, !.cand = 1,
                            !.context = << >>, !.key = SessionKey(DateStr, isMorning),
                            !.run = Now.n]]
    /\ lastRead' = NoRead
    /\ UNCHANGED << pool, apiKey, db, dbClock, inMemoryCache, cacheBy, world, lastCall, calls >>

\* The awaited parser.parseURL of fetchWithMirrors settles for job j: the
\* feed is returned to fetchFeeds, or the next candidate is asked, or all
\* mirrors have failed and fetchFeeds skips the source.
FetchReturn(j) ==
    /\ jobs[j].pc = "fetch"
    /\ LET job == jobs[j]
           source == SOURCES[job.src]
           outcome == world.attempt[job.src][job.cand]
           feed == world.feed[job.src]
       IN  IF outcome = "ok"
           THEN NextSource(j,
                    LogJob(Now, Msg("Fetched ", source.name, Len(feed))),
                    Append(job.context, Block(source, feed)))
           ELSE IF job.cand < Len(Candidates(source))
           THEN /\ jobs' = [jobs EXCEPT ![j].cand = @ + 1]
                /\ UNCHANGED << jobHistory, nextRunId >>
           ELSE SkipSource(j, Now, job.context)
    /\ lastRead' = NoRead
    /\ lastTrigger' = NoTrigger
    /\ UNCHANGED << pool, apiKey, db, dbClock, inMemoryCache, cacheBy, world, lastCall, calls >>

\* the parsed items are appended to what the slot holds
CacheMerge(cache, parsedContent) == cache \o parsedContent.items

\* runJob: inMemoryCache = parsedContent
CacheAssign(cache, parsedContent) == parsedContent.items

\* The awaited ai.models.generateContent settles for job j: runJob parses
\* the text, assigns the cache and starts the durable upsert, or fails.
GenerateReturn(j, shape) ==
    /\ jobs[j].pc = "generate"
    /\ Allowed(shape, world.gen, FreeShapes)
    /\ LET job == [jobs[j] EXCEPT !.shape = shape]
           T1 == LogJob(Now, Msg("Gemini response received.", "", 0))
           parsed == JsonParse(CleanJson(RawText(shape, j)))
           parsedContent == parsed.val
           T2 == LogJob(T1, Msg("Memory cache updated", "", Len(parsedContent.items)))
       IN  IF shape = "throw"
           THEN /\ jobs' = [jobs EXCEPT ![j] = Ended(job, FALSE, "model error")]
                /\ SetTracker(Catch(Now, "model error"))
                /\ UNCHANGED << inMemoryCache, cacheBy >>
           ELSE IF ~parsed.ok
           THEN /\ jobs' = [jobs EXCEPT ![j] = Ended(job, FALSE, "SyntaxError")]
                /\ SetTracker(Catch(T1, "SyntaxError"))
                /\ UNCHANGED << inMemoryCache, cacheBy >>
           ELSE IF ~IsArray(parsedContent)
           THEN /\ jobs' = [jobs EXCEPT ![j] = Ended(job, FALSE, "Invalid JSON Array")]
                /\ SetTracker(Catch(T1, "Invalid JSON Array"))
                /\ UNCHANGED << inMemoryCache, cacheBy >>
           ELSE /\ inMemoryCache' = CacheAssign(inMemoryCache, parsedContent)
                /\ cacheBy' = j
                /\ IF pool
                   THEN /\ jobs' = [jobs EXCEPT ![j] =
                               [job EXCEPT !.pc = "save", !.parsed = parsedContent,
                                           !.wrote = TRUE]]
                        /\ SetTracker(T2)
                   ELSE /\ jobs' = [jobs EXCEPT ![j] =
                               Ended([job EXCEPT !.parsed = parsedContent, !.wrote = TRUE],
                                     TRUE, "null")]
                        /\ SetTracker(FinishJob(
                               LogJob(T2, Msg("DB skipped (Not Configured).", "", 0)),
                               TRUE, "null"))
    /\ lastRead' = NoRead
    /\ lastTrigger' = NoTrigger
    /\ UNCHANGED << pool, apiKey, db, dbClock, world, lastCall, calls >>

\* The awaited upsert settles for job j: the row is written and the run is
\* sealed, or the query throws into the catch block of runJob.
SaveReturn(j, outcome) ==
    /\ jobs[j].pc = "save"
    /\ Allowed(outcome, world.save, { "ok", "fail" })
    /\ LET job == jobs[j]
       IN  IF outcome = "ok" /\ db.exists
           THEN /\ db' = [db EXCEPT !.rows =
                       Upsert(@, job.key, DateStr, JsonStringify(job.parsed), dbClock)]
                /\ dbClock' = dbClock + 1
                /\ jobs' = [jobs EXCEPT ![j] = Ended([job EXCEPT !.upsert = "ok"], TRUE, "null")]
                /\ SetTracker(FinishJob(
                       LogJob(Now, Msg("Saved to DB successfully.", "", 0)), TRUE, "null"))
           ELSE LET message == IF db.exists THEN "connection error"
                               ELSE "relation briefings does not exist"
                IN  /\ jobs' = [jobs EXCEPT ![j] =
                           Ended([job EXCEPT !.upsert = "failed"], FALSE, message)]
                    /\ SetTracker(Catch(Now, message))
                    /\ UNCHANGED << db, dbClock >>
    /\ lastRead' = NoRead
    /\ lastTrigger' = NoTrigger
    /\ UNCHANGED << pool, apiKey, inMemoryCache, cacheBy, world, lastCall, calls >>

\* ------------------------------------------------------------ GET /api/latest

\* the handler without the inner try/catch: a durable error reaches the
\* outer catch, which answers 500
LatestResponseNoFallback(hasPool, outcome, tableExists, rows, cache) ==
    LET threw == hasPool /\ (outcome = "error" \/ ~tableExists)
        result == IF hasPool /\ ~threw THEN SelectLatest(rows) ELSE << >>
    IN  [status |-> IF threw THEN 500 ELSE 200,
         body |-> IF threw THEN NoValue
                  ELSE IF Len(result) > 0 THEN JsonParse(result[1].content).val
                  ELSE Value("array", cache),
         from |-> IF threw THEN "none" ELSE IF Len(result) > 0 THEN "db" ELSE "cache",
         queries |-> IF hasPool THEN 1 ELSE 0,
         creates |-> 0,
         dbError |-> IF ~threw THEN "none"
                     ELSE IF ~tableExists THEN "missing table" ELSE "other"]

\* The answer of the handler: outcome is how the SELECT settled ("ok", or
\* "error" when pool.query threw); rows is the table, cache the cache slot.
LatestResponse(hasPool, outcome, tableExists, rows, cache) ==
    LET threw == hasPool /\ (outcome = "error" \/ ~tableExists)
        result == IF hasPool /\ ~threw THEN SelectLatest(rows) ELSE << >>
    IN  [status |-> 200,
         body |-> IF Len(result) > 0 THEN JsonParse(result[1].content).val
                  ELSE Value("array", cache),
         from |-> IF Len(result) > 0 THEN "db" ELSE "cache",
         queries |-> IF hasPool THEN 1 ELSE 0,
         creates |-> 0,
         dbError |-> IF ~threw THEN "none"
                     ELSE IF ~tableExists THEN "missing table" ELSE "other"]

LatestRead(outcome) ==
    /\ outcome \in { "ok", "error" }
    /\ ~pool => outcome = "ok"
    /\ LET r == LatestResponse(pool, outcome, db.exists, db.rows, inMemoryCache)
       IN  lastRead' =
             [status |-> r.status, body |-> r.body, from |-> r.from, queries |-> r.queries,
              creates |-> r.creates, dbError |-> r.dbError, writer |-> cacheBy,
              writerUpsert |-> IF cacheBy = 0 THEN "none" ELSE jobs[cacheBy].upsert]
    /\ lastTrigger' = NoTrigger
    /\ UNCHANGED << pool, apiKey, db, dbClock, inMemoryCache, cacheBy, jobHistory,
                    nextRunId, jobs, world, lastCall, calls >>

\* ------------------------------------------------- cron and POST /api/trigger

\* cron.schedule: runJob(true) at 00:00, runJob(false) at 06:00
Cron(j, isMorning) ==
    /\ StartJob(j, isMorning)
    /\ lastTrigger' = NoTrigger

\* What a request carries in its authorization header: nothing, the value of
\* API_KEY, or another value.
Headers == { "undefined", "secret", "other" }

\* process.env.API_KEY as seen by the handler
KeyValue(key) == IF key THEN "secret" ELSE "undefined"

\* the handler without the comparison of the header with API_KEY
TriggerStatusOpen(key, header) == IF ~key THEN 500 ELSE 200

\* The status the handler answers with: 500 without API_KEY, 401 when the
\* header is not strictly equal to it, else 200 after runJob was called.
TriggerStatus(key, header) ==
    IF ~key THEN 500
    ELSE IF header # KeyValue(key) THEN 401
    ELSE 200

\* app.post('/api/trigger'): isMorning is getUTCHours() < 3 at the request.
\* runJob is not awaited: it runs up to its first await, then the answer is sent.
Trigger(header, isMorning) ==
    LET status == TriggerStatus(apiKey, header)
    IN  IF status # 200
        THEN /\ lastTrigger' =
                   [status |-> status,
                    body |-> IF status = 500 THEN "API_KEY missing" ELSE "Unauthorized",
                    header |-> header, started |-> 0]
             /\ lastRead' = NoRead
             /\ UNCHANGED << pool, apiKey, db, dbClock, inMemoryCache, cacheBy, jobHistory,
                             nextRunId, jobs, world, lastCall, calls >>
        ELSE \E j \in JobIds :
                /\ StartJob(j, isMorning)
                /\ lastTrigger' = [status |-> status, body |-> "Job started.",
                                   header |-> header, started |-> j]

\* ---------------------------------------------------------- tracker harness

\* The tracker called directly, in any order, as a unit test of it would:
\* the start of runJob (unshift, then logJob), logJob and finishJob.

HarnessMessages == { Msg("note", "", 0) }

HarnessErrors == { "null", "boom" }

Called(op, success, error, message) ==
    /\ calls < MaxCalls
    /\ calls' = calls + 1
    /\ lastCall' = [op |-> op, success |-> success, error |-> error, msg |-> message,
                    open |-> Len(jobHistory) > 0 /\ ~jobHistory[1].finished]
    /\ UNCHANGED << pool, apiKey, db, dbClock, inMemoryCache, cacheBy, jobs, world, lastRead,
                    lastTrigger >>

CallBegin ==
    /\ SetTracker(LogJob(Unshift(Now), Msg("Job Started: ", "Morning", 0)))
    /\ Called("begin", FALSE, "null", Msg("Job Started: ", "Morning", 0))

CallLogJob(message) ==
    /\ SetTracker(LogJob(Now, message))
    /\ Called("log", FALSE, "null", message)

CallFinishJob(success, error) ==
    /\ SetTracker(FinishJob(Now, success, error))
    /\ Called("finish", success, error, Msg("", "", 0))

InitTracker ==
    /\ InitProgram
    /\ ~pool /\ ~apiKey
    /\ world = World(FeedWorld("down", << >>), "throw", "fail", "AM", FALSE, 0)

NextTracker ==
    \/ CallBegin
    \/ \E message \in HarnessMessages : CallLogJob(message)
    \/ \E success \in BOOLEAN, error \in HarnessErrors : CallFinishJob(success, error)

\* --------------------------------------------------------- specifications

Next ==
    \/ \E j \in JobIds, isMorning \in BOOLEAN : Cron(j, isMorning)
    \/ \E j \in JobIds : FetchReturn(j)
    \/ \E j \in JobIds, shape \in GenShapes : GenerateReturn(j, shape)
    \/ \E j \in JobIds, outcome \in { "ok", "fail" } : SaveReturn(j, outcome)
    \/ \E outcome \in { "ok", "error" } : LatestRead(outcome)

\* the program with requests to POST /api/trigger arriving as well
NextTrigger ==
    \/ Next
    \/ \E header \in Headers, isMorning \in BOOLEAN : Trigger(header, isMorning)

Spec == Init /\ [][Next]_vars

SpecSeq == InitSeq /\ [][Next]_vars

SpecFetch == InitFetch /\ [][Next]_vars

SpecRecency == InitRecency /\ [][Next]_vars

SpecCap == InitCap /\ [][Next]_vars

SpecTrigger == InitTrigger /\ [][NextTrigger]_vars

SpecTracker == InitTracker /\ [][NextTracker]_vars

\* an awaited external call of a running job settles
JobStep ==
    \/ \E j \in JobIds : FetchReturn(j)
    \/ \E j \in JobIds, shape \in GenShapes : GenerateReturn(j, shape)
    \/ \E j \in JobIds, outcome \in { "ok", "fail" } : SaveReturn(j, outcome)

\* jobs run one after another and every external call returns or fails
SpecSeqFair == InitFair /\ [][Next]_vars /\ WF_vars(JobStep)

\* ----------------------------------------------------------------- claims

\* the number of jobs started so far
StartedCount == Cardinality({ j \in JobIds : jobs[j].pc # "idle" })

\* the run object job j pushed at its start, as a set of positions in jobHistory
RunOf(j) == { i \in 1..Len(jobHistory) : jobHistory[i].id = jobs[j].run }

\* the bare terminal lines of a run
TerminalLines(run) == { k \in 1..Len(run.logs) : ~run.logs[k].stamp }

\* C1: GET /api/latest never answers with an error: whatever the durable
\* store does (no handle, query throws, no row, a row) and whatever the cache
\* holds, the answer is a 200 carrying an array.
C1_LatestNeverFails ==
    lastRead.status # 0 => lastRead.status = 200 /\ IsArray(lastRead.body)

\* C1 witness: a read answered while the durable query threw and the cache
\* held only the placeholder item
C1_Witness ==
    /\ lastRead.status = 200
    /\ lastRead.dbError # "none"
    /\ lastRead.body = Value("array", << Placeholder >>)

\* C2 (as claimed): a job that passed generation and validation and has
\* assigned the cache ends with finishJob(true), also when its durable upsert
\* threw.
C2_DurableFailureKeepsSuccess ==
    \A j \in JobIds :
        jobs[j].pc = "done" /\ jobs[j].wrote => jobs[j].result = "true"

\* C3 (as claimed): when the job that last assigned the cache had its durable
\* upsert fail, a latest-read answers with that job's items, whatever the
\* durable store holds.
C3_ReadReflectsLatestJob ==
    lastRead.status # 0 /\ lastRead.writerUpsert = "failed"
        => lastRead.body = jobs[lastRead.writer].parsed

\* C4 (as claimed): a latest-read whose query fails on the missing table
\* creates the schema once and queries exactly twice; on any other outcome it
\* creates nothing and queries at most once.
C4_SelfHealOnMissingTable ==
    lastRead.status # 0 =>
        IF lastRead.dbError = "missing table"
        THEN lastRead.creates = 1 /\ lastRead.queries = 2
        ELSE lastRead.creates = 0 /\ lastRead.queries <= 1

\* C5: between turns jobHistory holds at most 5 runs, and when jobs run one
\* after another it holds exactly the most recently started runs (5 of them
\* once more than 5 jobs have run), newest first.
C5_HistoryBound ==
    /\ Len(jobHistory) <= HistoryCap
    /\ Len(jobHistory) = Min(StartedCount, HistoryCap)
    /\ \A i \in 1..Len(jobHistory) : jobHistory[i].id = jobs[StartedCount - i + 1].run

\* C5 witness: more than 5 jobs have run, the first run is gone
C5_Witness ==
    /\ StartedCount > HistoryCap
    /\ Len(jobHistory) = HistoryCap
    /\ \A i \in 1..Len(jobHistory) : jobHistory[i].id # jobs[1].run
    /\ jobHistory[HistoryCap].id = jobs[StartedCount - HistoryCap + 1].run

\* C6: the first finishJob call on an unfinished front run sets finished,
\* success and error and appends one terminal line, touching nothing else; a
\* finishJob call on a sealed front run, with any arguments, changes nothing.
C6_FinishJobIdempotentOnce ==
    [][ lastCall'.op = "finish" /\ calls' = calls + 1 =>
          IF Len(jobHistory) > 0 /\ ~jobHistory[1].finished
          THEN /\ Len(jobHistory') = Len(jobHistory)
               /\ \A i \in 2..Len(jobHistory) : jobHistory'[i] = jobHistory[i]
               /\ jobHistory'[1].id = jobHistory[1].id
               /\ jobHistory'[1].finished
               /\ jobHistory'[1].success = (IF lastCall'.success THEN "true" ELSE "false")
               /\ jobHistory'[1].error = lastCall'.error
               /\ Len(jobHistory'[1].logs) = Len(jobHistory[1].logs) + 1
               /\ SubSeq(jobHistory'[1].logs, 1, Len(jobHistory[1].logs)) = jobHistory[1].logs
               /\ ~jobHistory'[1].logs[Len(jobHistory'[1].logs)].stamp
          ELSE jobHistory' = jobHistory ]_vars

\* C6 witness: finishJob was called on a sealed front run with a success
\* argument other than the one the run was sealed with
C6_Witness ==
    /\ lastCall.op = "finish"
    /\ ~lastCall.open
    /\ Len(jobHistory) > 0
    /\ jobHistory[1].finished
    /\ jobHistory[1].success # (IF lastCall.success THEN "true" ELSE "false")

\* the run job j pushed is sealed exactly when j has ended, and a sealed run
\* has success true or false and one terminal line
SealedWhenEnded(j) ==
    \A i \in RunOf(j) :
        /\ jobHistory[i].finished <=> jobs[j].pc = "done"
        /\ jobHistory[i].finished =>
              /\ jobHistory[i].success \in { "true", "false" }
              /\ jobHistory[i].success = jobs[j].result
              /\ Cardinality(TerminalLines(jobHistory[i])) = 1
        /\ ~jobHistory[i].finished => TerminalLines(jobHistory[i]) = {}

\* C7: when jobs do not overlap and every external call returns or fails,
\* every started job ends, and its run is sealed exactly once, with success
\* true or false.
C7_JobsTerminateSealed ==
    /\ [](\A j \in JobIds : SealedWhenEnded(j))
    /\ (Running # {}) ~> (Running = {})

\* C7 witness: a job has ended in the catch block and its run, the front
\* run, is sealed as failed with one terminal line
C7_Witness ==
    \E j \in JobIds :
        /\ jobs[j].pc = "done"
        /\ jobs[j].result = "false"
        /\ RunOf(j) = { 1 }
        /\ jobHistory[1].finished
        /\ jobHistory[1].success = "false"
        /\ Cardinality(TerminalLines(jobHistory[1])) = 1

\* C8: without a model credential no job calls the model, every ended job
\* is sealed as failed with the message recorded, and no turn changes the
\* cache slot or the durable store.
C8_NoCredentialNoEffect ==
    /\ [](~apiKey =>
            \A j \in JobIds :
                /\ ~jobs[j].called
                /\ jobs[j].pc # "generate"
                /\ jobs[j].pc = "done" =>
                      /\ jobs[j].result = "false"
                      /\ \A i \in RunOf(j) :
                            /\ jobHistory[i].finished
                            /\ jobHistory[i].success = "false"
                            /\ jobHistory[i].error = "API_KEY missing")
    /\ [][~apiKey => inMemoryCache' = inMemoryCache /\ db' = db]_vars

\* C8 witness: a job ended without credential, its run sealed as failed
C8_Witness ==
    /\ ~apiKey
    /\ \E j \in JobIds :
          /\ jobs[j].pc = "done"
          /\ RunOf(j) = { 1 }
          /\ jobHistory[1].error = "API_KEY missing"
          /\ inMemoryCache = << Placeholder >>

\* the model outputs that are no JSON text, or the text of something that is
\* not an array
NotAnArray == { "object", "garbage", "blank", "emptyfence", "unclosed" }

Succeeded(s) ==
    \E c \in 1..Len(Candidates(SOURCES[s])) :
        /\ world.attempt[s][c] = "ok"
        /\ c <= MaxAttempts

\* the sources below n whose fetch succeeded, in registry order
RECURSIVE SucceededBelow(_)
SucceededBelow(n) ==
    IF n <= 1 THEN << >>
    ELSE IF Succeeded(n - 1) THEN Append(SucceededBelow(n - 1), n - 1)
    ELSE SucceededBelow(n - 1)

\* C10: the context holds one block for exactly each source whose fetch
\* succeeded, in registry order, each with the items of that source's feed,
\* whichever other sources failed; exactly the failed sources are logged as
\* skipped.
C10_FetchIsolation ==
    \A j \in JobIds :
        jobs[j].pc # "idle" =>
            LET upto == IF jobs[j].pc = "fetch" THEN jobs[j].src ELSE NumSources + 1
                want == SucceededBelow(upto)
            IN  /\ Len(jobs[j].context) = Len(want)
                /\ \A i \in 1..Len(want) :
                      /\ jobs[j].context[i].source = SOURCES[want[i]].name
                      /\ Len(jobs[j].context[i].items) =
                            Min(Len(world.feed[want[i]]), ItemsPerSource)
                /\ \A i \in RunOf(j) : \A s \in 1..(upto - 1) :
                      ~Succeeded(s) <=>
                          \E k \in 1..Len(jobHistory[i].logs) :
                              jobHistory[i].logs[k].msg = Msg("Skipped ", SOURCES[s].name, 0)

\* C10 witness: the fetch is over, the first source failed on every
\* candidate, and the context holds the block of the second source
C10_Witness ==
    \E j \in JobIds :
        /\ jobs[j].pc \notin { "idle", "fetch" }
        /\ ~Succeeded(1)
        /\ Len(jobs[j].context) >= 1
        /\ jobs[j].context[1].source = SOURCES[2].name
        /\ Len(jobs[j].context[1].items) > 0

\* the sources whose block is the k-th block of the context of job j
SourceOfBlock(j, k) ==
    { s \in SourceIds : SOURCES[s].name = jobs[j].context[k].source }

\* C11 (as claimed): every item rendered into the context of a job comes from
\* a feed item whose publication time is stated, parses and lies within the
\* last day; items without such a time are dropped.
C11_OnlyRecentItems ==
    \A j \in JobIds : \A k \in 1..Len(jobs[j].context) : \A s \in SourceOfBlock(j, k) :
        \A n \in 1..Len(jobs[j].context[k].items) :
            \E i \in 1..Len(world.feed[s]) :
                /\ world.feed[s][i].published = "fresh"
                /\ RenderItem(world.feed[s][i]) = jobs[j].context[k].items[n]

\* C12: whatever the length of a feed, the block of a source holds at most
\* 15 items, and they are the first items of the feed, in feed order.
C12_PerSourceCap ==
    \A j \in JobIds : \A k \in 1..Len(jobs[j].context) : \A s \in SourceOfBlock(j, k) :
        LET items == jobs[j].context[k].items
        IN  /\ Len(items) <= 15
            /\ Len(items) <= Len(world.feed[s])
            /\ \A n \in 1..Len(items) : items[n] = RenderItem(world.feed[s][n])

\* C12 witness: a source served more than 15 items and its block is in the
\* context of a job whose fetch is over, cut to a prefix of the feed
C12_Witness ==
    \E j \in JobIds :
        /\ jobs[j].pc \notin { "idle", "fetch" }
        /\ Len(jobs[j].context) >= 1
        /\ \E s \in SourceOfBlock(j, 1) :
              /\ Len(world.feed[s]) > 15
              /\ Len(jobs[j].context[1].items) >= 1
              /\ Len(jobs[j].context[1].items) < Len(world.feed[s])
              /\ jobs[j].context[1].items[1] = RenderItem(world.feed[s][1])

\* title and summary of an item are both the pair {en, zh}
Bilingual(item) == item.title.shape = "pair" /\ item.summary.shape = "pair"

\* C13 (as claimed): every item in the cache slot and in the content of
\* every durable record has title and summary in the pair shape, also when
\* the model returned them as bare strings.
C13_StoredItemsBilingual ==
    /\ \A i \in 1..Len(inMemoryCache) : Bilingual(inMemoryCache[i])
    /\ \A r \in db.rows :
          LET content == JsonParse(r.content).val.items
          IN  \A i \in 1..Len(content) : Bilingual(content[i])

\* the durable records stored under a session key
RowsOf(rows, key) == { r \in rows : r.date_key = key }

\* C14: the store never holds two records under one session key, and a
\* successful upsert of a job leaves exactly one record under the job's key,
\* holding that job's items and created later than every other record and
\* than the record it replaced; the records under other keys stay as they were.
C14_UpsertIdempotent ==
    /\ [](\A r \in db.rows : RowsOf(db.rows, r.date_key) = { r })
    /\ [][\A j \in JobIds :
            jobs[j].pc = "save" /\ jobs'[j].upsert = "ok" =>
                LET key == jobs[j].key
                IN  /\ Cardinality(RowsOf(db'.rows, key)) = 1
                    /\ \A r \in RowsOf(db'.rows, key) :
                          /\ r.content = JsonStringify(jobs[j].parsed)
                          /\ \A q \in (db.rows \cup db'.rows) \ { r } :
                                q.created_at < r.created_at
                    /\ db'.rows \ RowsOf(db'.rows, key) = db.rows \ RowsOf(db.rows, key)]_vars

\* C14 witness: two jobs with the same session key and different items have
\* both upserted; one record holds the later job's items, next to the record
\* of an earlier day
C14_Witness ==
    \E j1, j2 \in JobIds :
        /\ j1 < j2
        /\ jobs[j1].upsert = "ok" /\ jobs[j2].upsert = "ok"
        /\ jobs[j1].pc = "done" /\ jobs[j2].pc = "done"
        /\ jobs[j1].key = jobs[j2].key
        /\ jobs[j1].parsed # jobs[j2].parsed
        /\ \A j3 \in JobIds : j3 > j2 => jobs[j3].pc = "idle"
        /\ OldRow \in db.rows
        /\ Cardinality(db.rows) = 2
        /\ \E r \in RowsOf(db.rows, jobs[j2].key) :
              /\ r.content = JsonStringify(jobs[j2].parsed)
              /\ r.created_at > OldRow.created_at

\* C15: a trigger request whose header is not the configured credential, or
\* that arrives when none is configured, is answered with an error and
\* changes neither job history, jobs, cache slot nor durable store; a request
\* with the matching credential starts exactly one job, and the answer is
\* sent while that job is still running.
C15_TriggerNeedsCredential ==
    [][ lastTrigger'.status # 0 =>
          IF apiKey /\ lastTrigger'.header = "secret"
          THEN /\ lastTrigger'.status = 200
               /\ \E j \in JobIds :
                     /\ lastTrigger'.started = j
                     /\ jobs[j].pc = "idle"
                     /\ jobs'[j].pc \notin { "idle", "done" }
                     /\ \A i \in JobIds \ { j } : jobs'[i] = jobs[i]
                     /\ jobHistory'[1].id = jobs'[j].run
                     /\ ~jobHistory'[1].finished
                     /\ nextRunId' = nextRunId + 1
               /\ inMemoryCache' = inMemoryCache /\ db' = db
          ELSE /\ lastTrigger'.status \in { 401, 500 }
               /\ lastTrigger'.started = 0
               /\ jobHistory' = jobHistory /\ nextRunId' = nextRunId
               /\ jobs' = jobs
               /\ inMemoryCache' = inMemoryCache /\ cacheBy' = cacheBy
               /\ db' = db /\ dbClock' = dbClock ]_vars

\* C15 witness: after an earlier job has ended, a request with the matching
\* credential was answered while the job it started is suspended in its fetch
C15_Witness ==
    /\ lastTrigger.status = 200
    /\ lastTrigger.header = KeyValue(apiKey)
    /\ lastTrigger.started > 1
    /\ jobs[lastTrigger.started].pc = "fetch"
    /\ jobs[1].pc = "done"
    /\ jobHistory[1].id = jobs[lastTrigger.started].run
    /\ ~jobHistory[1].finished

\* the jobs whose model output passed validation
Validated == { j \in JobIds : jobs[j].wrote }

\* C16: the cache slot holds the placeholder exactly as long as no job has
\* passed validation, and afterwards the complete parsed array of one job
\* that passed validation, the one that assigned it last, also when jobs
\* overlap.
C16_CacheWholesale ==
    /\ inMemoryCache = << Placeholder >> <=> Validated = {}
    /\ Validated = {} <=> cacheBy = 0
    /\ Validated # {} =>
          /\ cacheBy \in Validated
          /\ inMemoryCache = jobs[cacheBy].parsed.items

\* C16 witness: two overlapping jobs have both passed validation with
\* different items, the later-started one first; the cache holds the items of
\* the earlier-started one
C16_Witness ==
    \E j1, j2 \in JobIds :
        /\ j1 < j2
        /\ jobs[j1].pc = "save" /\ jobs[j2].pc = "save"
        /\ cacheBy = j1
        /\ jobs[j1].parsed.items # jobs[j2].parsed.items
        /\ Len(jobs[j1].parsed.items) > 0 /\ Len(jobs[j2].parsed.items) > 0
        /\ inMemoryCache = jobs[j1].parsed.items

\* C17: a latest-read answers with the content of the durable record with
\* the greatest created_at exactly when the Pool handle exists, the query
\* does not throw and the table holds a record; in every other case it
\* answers with the cache slot.
C17_LatestReadSource ==
    lastRead.status # 0 =>
        IF pool /\ lastRead.dbError = "none" /\ db.rows # {}
        THEN /\ lastRead.from = "db"
             /\ \E r \in db.rows :
                   /\ \A q \in db.rows : q.created_at <= r.created_at
                   /\ lastRead.body = JsonParse(r.content).val
        ELSE /\ lastRead.from = "cache"
             /\ lastRead.body = Value("array", inMemoryCache)

\* C17 witness: the table holds the record of an earlier day and the record
\* of a job, and a read answered with the items of the job
C17_Witness ==
    /\ lastRead.from = "db"
    /\ OldRow \in db.rows
    /\ Cardinality(db.rows) = 2
    /\ lastRead.body # JsonParse(OldRow.content).val
    /\ \E j \in JobIds : jobs[j].upsert = "ok" /\ lastRead.body = jobs[j].parsed

\* C18: after every logJob(m) call the front run is unfinished and its last
\* line is the entry for m: appended to the front run when that run was
\* unfinished, all else unchanged; otherwise alone in a new unfinished run
\* pushed in front of the runs that were there.
C18_LogNeverLost ==
    [][ lastCall'.op = "log" /\ calls' = calls + 1 =>
          LET m == Entry(lastCall'.msg)
          IN  /\ Len(jobHistory') > 0
              /\ ~jobHistory'[1].finished
              /\ Len(jobHistory'[1].logs) > 0
              /\ jobHistory'[1].logs[Len(jobHistory'[1].logs)] = m
              /\ IF Len(jobHistory) > 0 /\ ~jobHistory[1].finished
                 THEN jobHistory' = [jobHistory EXCEPT ![1].logs = Append(@, m)]
                 ELSE /\ jobHistory'[1].logs = << m >>
                      /\ \A i \in 1..Len(jobHistory) : jobHistory[i].id # jobHistory'[1].id
                      /\ Len(jobHistory') = Min(Len(jobHistory) + 1, HistoryCap)
                      /\ \A i \in 2..Len(jobHistory') : jobHistory'[i] = jobHistory[i - 1] ]_vars

\* C18 witness: logJob was called while the front run was sealed; the line
\* is alone in a new unfinished run in front of the sealed one
C18_Witness ==
    /\ lastCall.op = "log"
    /\ ~lastCall.open
    /\ Len(jobHistory) >= 2
    /\ ~jobHistory[1].finished
    /\ jobHistory[1].origin = "logJob"
    /\ jobHistory[1].logs = << Entry(lastCall.msg) >>
    /\ jobHistory[2].finished

\* the number of addresses fetchWithMirrors may try for source s: 3 for a
\* source on the mirrored provider, 1 for any other
AttemptLimit(s) == IF SOURCES[s].host = RSSHUB_MIRRORS[1] THEN 3 ELSE 1

\* some run holds the line that source s was skipped
SkipLogged(history, s) ==
    \E i \in 1..Len(history) : \E k \in 1..Len(history[i].logs) :
        history[i].logs[k].msg = Msg("Skipped ", SOURCES[s].name, 0)

\* C19: a job asks the candidates of a source in order, at most 3 of them
\* and exactly 1 for a source that is not mirrored; the first candidate that
\* answers with items ends the attempts and its feed is returned; on any
\* other answer the next candidate is asked; the source fails exactly when
\* every attempted candidate did.
C19_MirrorAttempts ==
    /\ [](\A j \in JobIds :
            jobs[j].pc = "fetch" =>
                /\ jobs[j].cand \in 1..AttemptLimit(jobs[j].src)
                /\ \A b \in 1..(jobs[j].cand - 1) : world.attempt[jobs[j].src][b] # "ok")
    /\ [][\A j \in JobIds :
            jobs[j].pc = "fetch" /\ jobs'[j] # jobs[j] =>
                LET s == jobs[j].src
                    c == jobs[j].cand
                    next == jobs'[j].pc = "fetch" /\ jobs'[j].src = s
                IN  IF world.attempt[s][c] = "ok"
                    THEN /\ ~next
                         /\ Len(jobs'[j].context) = Len(jobs[j].context) + 1
                         /\ jobs'[j].context[Len(jobs'[j].context)] = Block(SOURCES[s], world.feed[s])
                         /\ ~SkipLogged(jobHistory', s)
                    ELSE IF c < AttemptLimit(s)
                    THEN /\ next
                         /\ jobs'[j].cand = c + 1
                         /\ jobs'[j].context = jobs[j].context
                         /\ ~SkipLogged(jobHistory', s)
                    ELSE /\ ~next
                         /\ jobs'[j].context = jobs[j].context
                         /\ SkipLogged(jobHistory', s)]_vars

\* C19 witness: the first two candidates of the mirrored source did not
\* answer with items, the third did, and its feed is in the context
C19_Witness ==
    \E j \in JobIds :
        /\ jobs[j].pc \notin { "idle", "fetch" }
        /\ world.attempt[1][1] = "fail"
        /\ world.attempt[1][2] = "noitems"
        /\ world.attempt[1][3] = "ok"
        /\ Len(jobs[j].context) >= 1
        /\ jobs[j].context[1] = Block(SOURCES[1], world.feed[1])
        /\ ~SkipLogged(jobHistory, 1)

\* C20 (as claimed): the run a job pushed at its start is sealed exactly when
\* that job has ended, with that job's result, also when jobs overlap; and
\* once no job is running no run is left unfinished and every run was pushed
\* by a job start.
C20_EachJobSealsOwnRun ==
    /\ \A j \in JobIds : \A i \in RunOf(j) :
          /\ jobHistory[i].finished <=> jobs[j].pc = "done"
          /\ jobHistory[i].finished => jobHistory[i].success = jobs[j].result
    /\ Running = {} =>
          \A i \in 1..Len(jobHistory) :
              /\ jobHistory[i].finished
              /\ jobHistory[i].origin = "runJob"

\* C21: whatever is called next, a sealed run is either still in the history
\* exactly as it was (logs, success, error and all), or it was the last of a
\* full history and has been evicted.
C21_SealedRunImmutable ==
    [][ \A i \in 1..Len(jobHistory) :
          jobHistory[i].finished =>
              LET kept == { k \in 1..Len(jobHistory') : jobHistory'[k].id = jobHistory[i].id }
              IN  /\ \A k \in kept : jobHistory'[k] = jobHistory[i]
                  /\ kept = {} => i = Len(jobHistory) /\ Len(jobHistory) = HistoryCap ]_vars

\* C21 witness: a run was sealed, two runs were started on top of it and
\* finishJob was called twice since; the sealed run is there with its one
\* terminal line, behind an abandoned run and a sealed one
C21_Witness ==
    /\ Len(jobHistory) >= 3
    /\ jobHistory[3].finished
    /\ Cardinality(TerminalLines(jobHistory[3])) = 1
    /\ ~jobHistory[2].finished
    /\ jobHistory[1].finished
    /\ lastCall.op = "finish"
    /\ ~lastCall.open

\* C22 (as claimed): whenever no job is running, the Pool handle exists, some
\* job has passed validation and the upsert of every job that passed
\* validation succeeded, the cache slot holds the content of the durable
\* record created last, also when jobs overlapped.
C22_CacheAgreesWithStore ==
    ( /\ Running = {}
      /\ pool
      /\ Validated # {}
      /\ \A j \in Validated : jobs[j].upsert = "ok" )
    => /\ SelectLatest(db.rows) # << >>
       /\ Value("array", inMemoryCache) = JsonParse(SelectLatest(db.rows)[1].content).val

\* the model outputs that are no text at all: undefined or null, or ""
EmptyText == { "absent", "empty" }

\* C23 (as claimed): a job whose model call returned empty or absent text
\* passes validation with the empty array, its run is sealed with success
\* true and the cache slot holds the empty sequence while that job is the
\* last to have assigned it; a latest-read that then falls back to the cache
\* answers with the empty array.
C23_EmptyTextIsEmptyArray ==
    /\ \A j \in JobIds :
          jobs[j].shape \in EmptyText =>
              /\ jobs[j].wrote
              /\ jobs[j].parsed = Value("array", << >>)
              /\ cacheBy = j => inMemoryCache = << >>
              /\ jobs[j].pc = "done" =>
                    /\ jobs[j].result = "true"
                    /\ \A i \in RunOf(j) :
                          jobHistory[i].finished /\ jobHistory[i].success = "true"
    /\ ( /\ lastRead.status # 0
         /\ lastRead.from = "cache"
         /\ lastRead.writer # 0
         /\ jobs[lastRead.writer].shape \in EmptyText )
       => lastRead.body = Value("array", << >>)

====
